---------------------------- MODULE Spec2Model ----------------------------
(***************************************************************************)
(* The invoice editor of InvoiceAssistant                                  *)
(* (frontend/src/pages/InvoiceEditorPage.tsx): the form state held by      *)
(* react-hook-form, the live totals computed on every render, the draft    *)
(* written to localStorage after every change, and the payload handed to   *)
(* the export handler; further down, a second editor instance on the same *)
(* localStorage, the invoices page and the new-invoice page with their     *)
(* requests in flight, and the editor's session from mount to leave.       *)
(*                                                                         *)
(* JavaScript numbers are modelled in fixed point: a number x is the       *)
(* record [k |-> "num", v |-> x * Scale].  With whole quantities, prices   *)
(* and percentages every product and every division by 100 that the code   *)
(* performs is exact at this scale.  NaN, undefined and null are values of *)
(* their own, and the arithmetic propagates NaN as JavaScript does.        *)
(***************************************************************************)
EXTENDS Integers, Sequences, FiniteSets, Bags

VARIABLES
    line_items,   \* form values: line_items (the rows of the field array)
    totals,       \* form values: totals (InvoiceData.totals)
    view,         \* what the last render computed: per-row sub and the live totals
    draft,        \* localStorage["invoice_draft"], parsed; NoDraft when absent
    exported      \* the InvoiceData passed to onExport while it runs; NoExport otherwise

VARIABLES
    router,         \* react-router: the location (pathname, state.invoice) and the blocker
    formState,      \* react-hook-form: defaultValues and isDirty
    invoicesPage,   \* InvoicesPage: its busy flags, the records listed, the requests in flight
    newInvoicePage  \* NewInvoicePage: prompt, busy flags, mediaRecorderRef, recorders, requests

\* the state outside the editor's form values, render, draft and export
pages == <<router, formState, invoicesPage, newInvoicePage>>

vars == <<line_items, totals, view, draft, exported, router, formState, invoicesPage,
          newInvoicePage>>

\* Spec, SpecTotals and SpecSteps follow the form values, the render, the draft
\* and the export of an editor that stays open; navigation and formState are
\* followed by SpecSession, the other two pages by SpecPages.
NotFollowed == [absent |-> TRUE]

EditorOnly ==
    /\ router = NotFollowed
    /\ formState = NotFollowed
    /\ invoicesPage = NotFollowed
    /\ newInvoicePage = NotFollowed

(***************************************************************************)
(* Bounds of the model.                                                    *)
(***************************************************************************)
MaxRows == 2

(***************************************************************************)
(* JavaScript values.                                                      *)
(***************************************************************************)
Scale == 100 * 100

Num(x) == [k |-> "num", v |-> x * Scale]

NaN == [k |-> "NaN", v |-> 0]

Undefined == [k |-> "undefined", v |-> 0]

Null == [k |-> "null", v |-> 0]

IsNum(a) == a.k = "num"

\* unary plus, ToNumber: +undefined is NaN, +null is 0
ToNumber(a) ==
    CASE a.k = "num" -> a
      [] a.k = "NaN" -> NaN
      [] a.k = "undefined" -> NaN
      [] a.k = "null" -> Num(0)

Add(a, b) == IF IsNum(a) /\ IsNum(b) THEN [k |-> "num", v |-> a.v + b.v] ELSE NaN

Sub(a, b) == IF IsNum(a) /\ IsNum(b) THEN [k |-> "num", v |-> a.v - b.v] ELSE NaN

\* a * b; the product is taken by halves so that no intermediate value leaves
\* the range of the checker's integers
Mul(a, b) ==
    IF IsNum(a) /\ IsNum(b)
    THEN LET ah == a.v \div Scale
             al == a.v % Scale
             bh == b.v \div Scale
             bl == b.v % Scale
         IN  [k |-> "num",
              v |-> ah * bh * Scale + ah * bl + al * bh + (al * bl) \div Scale]
    ELSE NaN

\* a / 100, the only division of the page
Div100(a) == IF IsNum(a) THEN [k |-> "num", v |-> a.v \div 100] ELSE NaN

(***************************************************************************)
(* InvoiceEditorPage.tsx                                                   *)
(***************************************************************************)
defaultLineItem ==
    [quantity     |-> Num(1),
     unit_price   |-> Num(0),
     discount_pct |-> Num(0),
     tax_pct      |-> Num(0),
     subtotal     |-> Num(0)]

\* faulty variant: the discount added instead of taken off
calcSubtotal_surcharge(qty, price, disc) ==
    Mul(Mul(qty, price), Add(Num(1), Div100(disc)))

\* faulty variant: the factor taken as disc / 100 - 1
calcSubtotal_negated(qty, price, disc) ==
    Mul(Mul(qty, price), Sub(Div100(disc), Num(1)))

\* faulty variant: the discount taken as a fraction, not as a percentage
calcSubtotal_noPercent(qty, price, disc) ==
    Mul(Mul(qty, price), Sub(Num(1), disc))

calcSubtotal(qty, price, disc) ==
    Mul(Mul(qty, price), Sub(Num(1), Div100(disc)))

\* the row's `sub` of the table body
rowSub(li) ==
    calcSubtotal(ToNumber(li.quantity), ToNumber(li.unit_price), ToNumber(li.discount_pct))

Front(s) == SubSeq(s, 1, Len(s) - 1)

Last(s) == s[Len(s)]

\* faulty variant: the sum started at the second row
RECURSIVE subtotal_skipFirst(_)
subtotal_skipFirst(lineItems) ==
    IF Len(lineItems) <= 1 THEN Num(0)
    ELSE LET li == Last(lineItems)
         IN  Add(subtotal_skipFirst(Front(lineItems)),
                 calcSubtotal(ToNumber(li.quantity), ToNumber(li.unit_price),
                              ToNumber(li.discount_pct)))

\* faulty variant: the sum of quantity * price, the discount left out
RECURSIVE subtotal_gross(_)
subtotal_gross(lineItems) ==
    IF lineItems = <<>> THEN Num(0)
    ELSE LET li == Last(lineItems)
         IN  Add(subtotal_gross(Front(lineItems)),
                 Mul(ToNumber(li.quantity), ToNumber(li.unit_price)))

\* lineItems.reduce((s, li) => s + calcSubtotal(...), 0)
RECURSIVE subtotal(_)
subtotal(lineItems) ==
    IF lineItems = <<>> THEN Num(0)
    ELSE LET li == Last(lineItems)
         IN  Add(subtotal(Front(lineItems)),
                 calcSubtotal(ToNumber(li.quantity), ToNumber(li.unit_price),
                              ToNumber(li.discount_pct)))

\* faulty variant: the discount percentage taken of the discounted amount
RECURSIVE discountTotal_ofNet(_)
discountTotal_ofNet(lineItems) ==
    IF lineItems = <<>> THEN Num(0)
    ELSE LET li == Last(lineItems)
         IN  Add(discountTotal_ofNet(Front(lineItems)),
                 Mul(calcSubtotal(ToNumber(li.quantity), ToNumber(li.unit_price),
                                  ToNumber(li.discount_pct)),
                     Div100(ToNumber(li.discount_pct))))

\* lineItems.reduce((s, li) => s + (qty * price * (disc / 100)), 0)
RECURSIVE discountTotal(_)
discountTotal(lineItems) ==
    IF lineItems = <<>> THEN Num(0)
    ELSE LET li == Last(lineItems)
         IN  Add(discountTotal(Front(lineItems)),
                 Mul(Mul(ToNumber(li.quantity), ToNumber(li.unit_price)),
                     Div100(ToNumber(li.discount_pct))))

\* faulty variant: each line's tax rounded to cents before it is added
RECURSIVE taxTotal_roundedLines(_)
taxTotal_roundedLines(lineItems) ==
    IF lineItems = <<>> THEN Num(0)
    ELSE LET li == Last(lineItems)
             base == calcSubtotal(ToNumber(li.quantity), ToNumber(li.unit_price),
                                  ToNumber(li.discount_pct))
             tax == Mul(base, Div100(ToNumber(li.tax_pct)))
         IN  Add(taxTotal_roundedLines(Front(lineItems)),
                 IF IsNum(tax) THEN [k |-> "num", v |-> ((tax.v + 50) \div 100) * 100]
                 ELSE NaN)

\* faulty variant: a reduce without its initial value 0 yields no number
taxTotal_noInitial(lineItems) == NaN

\* faulty variant: the tax taken on quantity * price, before the discount
RECURSIVE taxTotal_onGross(_)
taxTotal_onGross(lineItems) ==
    IF lineItems = <<>> THEN Num(0)
    ELSE LET li == Last(lineItems)
             base == Mul(ToNumber(li.quantity), ToNumber(li.unit_price))
         IN  Add(taxTotal_onGross(Front(lineItems)),
                 Mul(base, Div100(ToNumber(li.tax_pct))))

\* lineItems.reduce((s, li) => { base = calcSubtotal(...); return s + base * (tax / 100) }, 0)
RECURSIVE taxTotal(_)
taxTotal(lineItems) ==
    IF lineItems = <<>> THEN Num(0)
    ELSE LET li == Last(lineItems)
             base == calcSubtotal(ToNumber(li.quantity), ToNumber(li.unit_price),
                                  ToNumber(li.discount_pct))
         IN  Add(taxTotal(Front(lineItems)),
                 Mul(base, Div100(ToNumber(li.tax_pct))))

\* faulty variant: the tax left out of the grand total
grandTotal_noTax(sub, tax) == sub

grandTotal(sub, tax) == Add(sub, tax)

\* Intl.NumberFormat("en-US", 2 fraction digits).format(n): the text of n rounded
\* to cents, halves away from zero; "NaN" for NaN
fmt(n) ==
    IF IsNum(n)
    THEN [k |-> "text",
          cents |-> IF n.v >= 0 THEN (n.v + 50) \div 100 ELSE -((50 - n.v) \div 100)]
    ELSE [k |-> "NaN", cents |-> 0]

\* one render of the page: the per-row subtotals and the live totals, and the
\* texts shown for them
Render(lineItems) ==
    LET sub == subtotal(lineItems)
        disc == discountTotal(lineItems)
        tax == taxTotal(lineItems)
        grand == grandTotal(sub, tax)
    IN  [subs          |-> [i \in 1..Len(lineItems) |-> rowSub(lineItems[i])],
         subtotal      |-> sub,
         discountTotal |-> disc,
         taxTotal      |-> tax,
         grandTotal    |-> grand,
         shown         |-> [subs          |-> [i \in 1..Len(lineItems) |->
                                                    fmt(rowSub(lineItems[i]))],
                            subtotal      |-> fmt(sub),
                            discountTotal |-> fmt(disc),
                            taxTotal      |-> fmt(tax),
                            grandTotal    |-> fmt(grand)]]

\* JSON.parse(JSON.stringify(x)) of one field: NaN is written as null, an
\* undefined property is left out and so reads back as undefined
jsonValue(a) ==
    CASE a.k = "num" -> a
      [] a.k = "NaN" -> Null
      [] a.k = "undefined" -> Undefined
      [] a.k = "null" -> Null

jsonRow(li) == [f \in DOMAIN li |-> jsonValue(li[f])]

\* the effect on watchedValues: localStorage.setItem(DRAFT_KEY, JSON.stringify(watchedValues))
persistDraft(items, tot) ==
    [line_items |-> [i \in 1..Len(items) |-> jsonRow(items[i])],
     totals     |-> [f \in DOMAIN tot |-> jsonValue(tot[f])]]

NoDraft == [absent |-> TRUE]

NoInvoice == [absent |-> TRUE]

NoExport == [absent |-> TRUE]

\* useForm's built-in defaultValues
defaultValues ==
    [line_items |-> <<defaultLineItem>>,
     totals     |-> [subtotal |-> Num(0), discount_total |-> Num(0),
                     tax_total |-> Num(0), grand_total |-> Num(0)]]

\* location.state.invoice ?? the parsed localStorage draft ?? null
initialInvoice(routerInvoice, stored) ==
    IF routerInvoice # NoInvoice THEN routerInvoice ELSE stored

\* useForm({ defaultValues: initialInvoice ?? {...} })
formDefaults(routerInvoice, stored) ==
    IF initialInvoice(routerInvoice, stored) # NoInvoice
    THEN initialInvoice(routerInvoice, stored)
    ELSE defaultValues

(***************************************************************************)
(* The inputs of the model: what the number inputs deliver (valueAsNumber: *)
(* a number, or NaN for an empty field; min and max are attributes of the  *)
(* input element only), the invoices the generator hands over in router    *)
(* state, and the drafts an earlier editor session left in localStorage.   *)
(***************************************************************************)
\* the number n / d
Frac(n, d) ==
    [k |-> "num", v |-> IF Scale % d = 0 THEN n * (Scale \div d) ELSE (n * Scale) \div d]

QuantityInputs == {Num(1), Num(2), Num(-1)}

PriceInputs == {Num(0), Num(5), NaN}

DiscountInputs == {Num(0), Num(50)}

TaxInputs == {Num(0), Num(10)}

\* an invoice without line items, and one whose prices the generator left at 0
GeneratedInvoices ==
    { [line_items |-> <<>>, totals |-> defaultValues.totals],
      [line_items |-> << [defaultLineItem EXCEPT !.quantity = Num(2)] >>,
       totals     |-> defaultValues.totals] }

\* what an earlier session of the editor wrote, its prices not filled in yet
StoredDrafts ==
    { persistDraft(<< [defaultLineItem EXCEPT !.quantity = Num(2),
                                              !.discount_pct = Num(50),
                                              !.tax_pct = Num(10)] >>,
                   defaultValues.totals) }

(***************************************************************************)
(* The state after the first render and its effects.                       *)
(***************************************************************************)
Init ==
    \E routerInvoice \in GeneratedInvoices \cup {NoInvoice},
       stored \in StoredDrafts \cup {NoDraft} :
        LET form == formDefaults(routerInvoice, stored)
        IN  /\ line_items = form.line_items
            /\ totals = form.totals
            /\ view = Render(form.line_items)
            /\ draft = persistDraft(form.line_items, form.totals)
            /\ exported = NoExport
            /\ EditorOnly

\* faulty variant: the change re-renders the page and leaves the draft as it was
Changed_noDraft(items) ==
    /\ exported = NoExport
    /\ line_items' = items
    /\ view' = Render(items)
    /\ UNCHANGED <<totals, draft, exported>>
    /\ UNCHANGED pages

\* every change of the form values re-renders the page and rewrites the draft;
\* a handler runs to completion, so none starts while onExport is running
FormChanged(items) ==
    /\ exported = NoExport
    /\ line_items' = items
    /\ view' = Render(items)
    /\ draft' = persistDraft(items, totals)
    /\ UNCHANGED <<totals, exported>>

\* a change of the form values in an editor that stays open
Changed(items) ==
    /\ FormChanged(items)
    /\ UNCHANGED pages

\* faulty variant: the new row put before the existing rows
AddItem_prepend ==
    /\ Len(line_items) < MaxRows
    /\ Changed(<<defaultLineItem>> \o line_items)

\* Add Item: append(defaultLineItem())
AddItem ==
    /\ Len(line_items) < MaxRows
    /\ Changed(Append(line_items, defaultLineItem))

\* the row's remove button: remove(i), disabled when fields.length === 1
RemoveItem ==
    \E i \in 1..Len(line_items) :
        /\ Len(line_items) # 1
        /\ Changed(SubSeq(line_items, 1, i - 1) \o SubSeq(line_items, i + 1, Len(line_items)))

\* the registered number inputs of row i
EditQuantity ==
    \E i \in 1..Len(line_items), x \in QuantityInputs :
        /\ line_items[i].quantity # x
        /\ Changed([line_items EXCEPT ![i].quantity = x])

EditUnitPrice ==
    \E i \in 1..Len(line_items), x \in PriceInputs :
        /\ line_items[i].unit_price # x
        /\ Changed([line_items EXCEPT ![i].unit_price = x])

EditDiscount ==
    \E i \in 1..Len(line_items), x \in DiscountInputs :
        /\ line_items[i].discount_pct # x
        /\ Changed([line_items EXCEPT ![i].discount_pct = x])

EditTax ==
    \E i \in 1..Len(line_items), x \in TaxInputs :
        /\ line_items[i].tax_pct # x
        /\ Changed([line_items EXCEPT ![i].tax_pct = x])

\* Export PDF: handleSubmit(onExport) calls onExport with the form values
Export ==
    /\ exported = NoExport
    /\ exported' = [line_items |-> line_items, totals |-> totals]
    /\ UNCHANGED <<line_items, totals, view, draft>>
    /\ UNCHANGED pages

\* onExport returns
ExportReturn ==
    /\ exported # NoExport
    /\ exported' = NoExport
    /\ UNCHANGED <<line_items, totals, view, draft>>
    /\ UNCHANGED pages

Next ==
    \/ AddItem
    \/ RemoveItem
    \/ EditQuantity
    \/ EditUnitPrice
    \/ EditDiscount
    \/ EditTax
    \/ Export
    \/ ExportReturn

Spec == Init /\ [][Next]_vars

(***************************************************************************)
(* A second instance of the editor (another tab of the same origin) open   *)
(* on the same localStorage.  Its form values are its own; what this       *)
(* editor can observe of it is the draft it writes under invoice_draft.    *)
(***************************************************************************)
\* the rows the other instance may hold
OtherEditorItems ==
    { << [defaultLineItem EXCEPT !.unit_price = x] >> : x \in PriceInputs }

\* faulty variant: the other instance's change reaches this editor's form values
OtherEditorChanged_shared ==
    \E items \in OtherEditorItems :
        /\ draft # persistDraft(items, defaultValues.totals)
        /\ draft' = persistDraft(items, defaultValues.totals)
        /\ line_items' = items
        /\ UNCHANGED <<totals, view, exported>>
        /\ UNCHANGED pages

\* the other instance's draft effect after a change of its form values
OtherEditorChanged ==
    \E items \in OtherEditorItems :
        /\ draft # persistDraft(items, defaultValues.totals)
        /\ draft' = persistDraft(items, defaultValues.totals)
        /\ UNCHANGED <<line_items, totals, view, exported>>
        /\ UNCHANGED pages

\* Discard in the other instance: clearDraft()
OtherEditorDiscard ==
    /\ draft # NoDraft
    /\ draft' = NoDraft
    /\ UNCHANGED <<line_items, totals, view, exported>>
    /\ UNCHANGED pages

NextShared ==
    \/ AddItem
    \/ RemoveItem
    \/ EditUnitPrice
    \/ EditTax
    \/ OtherEditorChanged
    \/ OtherEditorDiscard

SpecShared == Init /\ [][NextShared]_vars

(***************************************************************************)
(* The editor opened on a stored invoice: the Edit button of the invoices  *)
(* page parses the record's invoice_json and hands it over in router       *)
(* state, and the editor's first render computes the totals of its lines.  *)
(* The lines are drawn from a small set: three lines with and without a    *)
(* discount, a line of the schema without discount_pct and tax_pct, and a  *)
(* line whose tax is half a cent.                                          *)
(***************************************************************************)
MaxLines == 3

StoredLines ==
    { [quantity |-> Num(10), unit_price |-> Num(150), discount_pct |-> Num(0),
       tax_pct |-> Num(0), subtotal |-> Num(1500)],
      [quantity |-> Num(1), unit_price |-> Num(800), discount_pct |-> Num(50),
       tax_pct |-> Num(0), subtotal |-> Num(400)],
      [quantity |-> Num(2), unit_price |-> Num(800), discount_pct |-> Num(0),
       tax_pct |-> Num(0), subtotal |-> Num(1600)],
      [quantity |-> Num(2), unit_price |-> Frac(9999, 100), discount_pct |-> Undefined,
       tax_pct |-> Undefined, subtotal |-> Frac(19998, 100)],
      [quantity |-> Num(1), unit_price |-> Num(1), discount_pct |-> Num(50),
       tax_pct |-> Num(1), subtotal |-> Frac(1, 2)] }

\* the totals of a stored invoice: subtotal and grand_total only
storedTotals(items) ==
    LET S[n \in 0..Len(items)] ==
            IF n = 0 THEN Num(0) ELSE Add(S[n - 1], items[n].subtotal)
    IN  [subtotal |-> S[Len(items)], discount_total |-> Undefined,
         tax_total |-> Undefined, grand_total |-> S[Len(items)]]

NotRendered == [absent |-> TRUE]

\* handleEdit: navigate("/invoices/editor", { state: { invoice } })
InitTotals ==
    \E n \in 0..MaxLines :
        \E items \in [1..n -> StoredLines] :
            /\ line_items = items
            /\ totals = storedTotals(items)
            /\ view = NotRendered
            /\ draft = NoDraft
            /\ exported = NoExport
            /\ EditorOnly

\* the editor's first render and its draft effect
FirstRender ==
    /\ view = NotRendered
    /\ view' = Render(line_items)
    /\ draft' = persistDraft(line_items, totals)
    /\ UNCHANGED <<line_items, totals, exported>>
    /\ UNCHANGED pages

NextTotals == FirstRender

SpecTotals == InitTotals /\ [][NextTotals]_vars

\* ---------------------------------------------------------------------
\* The live totals of one render, step by step: the three reduces of lines
\* 73-78 call their callback once per line item, left to right, and line 79
\* adds subtotal and taxTotal. view holds the computation in progress: the
\* statement reached (pc), the index of the next item (i), the accumulator
\* of the running reduce (acc), the results so far and the steps taken.
\* ---------------------------------------------------------------------
Reduces == {"subtotal", "discountTotal", "taxTotal"}

\* the statement after a reduce
After(pc) ==
    CASE pc = "subtotal" -> "discountTotal"
      [] pc = "discountTotal" -> "taxTotal"
      [] pc = "taxTotal" -> "grandTotal"

\* what the callback of a reduce adds for one line item
Callback(pc, li) ==
    CASE pc = "subtotal" ->
            calcSubtotal(ToNumber(li.quantity), ToNumber(li.unit_price),
                         ToNumber(li.discount_pct))
      [] pc = "discountTotal" ->
            Mul(Mul(ToNumber(li.quantity), ToNumber(li.unit_price)),
                Div100(ToNumber(li.discount_pct)))
      [] pc = "taxTotal" ->
            Mul(calcSubtotal(ToNumber(li.quantity), ToNumber(li.unit_price),
                             ToNumber(li.discount_pct)),
                Div100(ToNumber(li.tax_pct)))

Started == view # NotRendered

\* the render reaches line 73: reduce(..., 0)
StartTotals ==
    /\ view = NotRendered
    /\ view' = [pc |-> "subtotal", i |-> 0, acc |-> Num(0),
                subtotal |-> Undefined, discountTotal |-> Undefined,
                taxTotal |-> Undefined, grandTotal |-> Undefined, steps |-> 1]
    /\ UNCHANGED <<line_items, totals, draft, exported>>
    /\ UNCHANGED pages

\* one call of the running reduce's callback
ReduceStep ==
    /\ Started
    /\ view.pc \in Reduces
    /\ view.i < Len(line_items)
    /\ view' = [view EXCEPT !.i = @ + 1,
                            !.acc = Add(@, Callback(view.pc, line_items[view.i + 1])),
                            !.steps = @ + 1]
    /\ UNCHANGED <<line_items, totals, draft, exported>>
    /\ UNCHANGED pages

\* the running reduce returns its accumulator and the next statement starts
ReduceReturn ==
    /\ Started
    /\ view.pc \in Reduces
    /\ view.i = Len(line_items)
    /\ view' = [view EXCEPT ![view.pc] = view.acc,
                            !.pc = After(view.pc),
                            !.i = 0,
                            !.acc = Num(0),
                            !.steps = @ + 1]
    /\ UNCHANGED <<line_items, totals, draft, exported>>
    /\ UNCHANGED pages

\* faulty variant: the result is awaited from a pending operation
GrandTotalStep_pending ==
    /\ Started
    /\ view.pc = "grandTotal"
    /\ view' = [view EXCEPT !.pc = "pending"]
    /\ UNCHANGED <<line_items, totals, draft, exported>>
    /\ UNCHANGED pages

\* line 79: grandTotal = subtotal + taxTotal
GrandTotalStep ==
    /\ Started
    /\ view.pc = "grandTotal"
    /\ view' = [view EXCEPT !.grandTotal = grandTotal(view.subtotal, view.taxTotal),
                            !.pc = "done",
                            !.steps = @ + 1]
    /\ UNCHANGED <<line_items, totals, draft, exported>>
    /\ UNCHANGED pages

NextSteps ==
    \/ StartTotals
    \/ ReduceStep
    \/ ReduceReturn
    \/ GrandTotalStep

\* the render runs on the single JavaScript thread and is not interleaved
\* with anything else: a step that can be taken is taken
SpecSteps == InitTotals /\ [][NextSteps]_vars /\ WF_vars(NextSteps)

(***************************************************************************)
(* The invoices page (frontend/src/pages/InvoicesPage.tsx) and the         *)
(* new-invoice page (frontend/src/pages/NewInvoicePage.tsx): one of them   *)
(* is mounted, the user clicks, and the requests the handlers await settle *)
(* in any order.  A handler runs up to its await in one step and from the  *)
(* settling of the request to its end in another.                          *)
(***************************************************************************)
\* the requests of one kind a page may have in flight at a time
MaxInFlight == 2

\* the recorders the new-invoice page may create
MaxRecorders == 2

Unmounted == [absent |-> TRUE]

\* the records listed
RecordIds == {"r1", "r2"}

\* useState<number | null>(null)
NoId == "null"

\* the flag each handler of a row's button sets
BusyFlag ==
    [view |-> "viewingId", index |-> "indexingId", delete |-> "deletingId"]

RowRequests == [kind : DOMAIN BusyFlag, id : RecordIds]

UploadRequest == [kind |-> "upload", id |-> NoId]

InvoicesPageMounted ==
    [uploading |-> FALSE, viewingId |-> NoId, indexingId |-> NoId, deletingId |-> NoId,
     records |-> RecordIds, requests |-> EmptyBag]

OnInvoicesPage == router.pathname = "/invoices" /\ invoicesPage # Unmounted

\* the requests of kind in flight
InFlight(kind) ==
    BagCardinality([req \in {q \in BagToSet(invoicesPage.requests) : q.kind = kind} |->
                        invoicesPage.requests[req]])

\* handleView / handleIndex / handleDelete up to the await: the row's button is
\* rendered for a listed record and disabled while the flag holds its id;
\* handleDelete goes on when the user confirms
RowClick(kind) ==
    /\ OnInvoicesPage
    /\ \E r \in invoicesPage.records :
        /\ invoicesPage[BusyFlag[kind]] # r
        /\ InFlight(kind) < MaxInFlight
        /\ invoicesPage' =
            [invoicesPage EXCEPT ![BusyFlag[kind]] = r,
                                 !.requests = @ (+) SetToBag({[kind |-> kind, id |-> r]})]
        /\ UNCHANGED <<line_items, totals, view, draft, exported, router, formState,
                       newInvoicePage>>

\* faulty variant: finally leaves the flag as it is
RowSettled_flagKept(kind) ==
    /\ OnInvoicesPage
    /\ \E req \in BagToSet(invoicesPage.requests), ok \in BOOLEAN :
        /\ req.kind = kind
        /\ invoicesPage' =
            [invoicesPage EXCEPT !.requests = @ (-) SetToBag({req})]
        /\ UNCHANGED <<line_items, totals, view, draft, exported, router, formState,
                       newInvoicePage>>

\* the awaited request settles: try / catch, then finally resets the flag; a
\* fulfilled delete invalidates the list, which is fetched again without the record
RowSettled(kind) ==
    /\ OnInvoicesPage
    /\ \E req \in BagToSet(invoicesPage.requests), ok \in BOOLEAN :
        /\ req.kind = kind
        /\ invoicesPage' =
            [invoicesPage EXCEPT ![BusyFlag[kind]] = NoId,
                                 !.requests = @ (-) SetToBag({req}),
                                 !.records = IF kind = "delete" /\ ok THEN @ \ {req.id} ELSE @]
        /\ UNCHANGED <<line_items, totals, view, draft, exported, router, formState,
                       newInvoicePage>>

handleView == RowClick("view")

handleViewSettled == RowSettled("view")

handleDelete == RowClick("delete")

handleDeleteSettled == RowSettled("delete")

handleIndex == RowClick("index")

handleIndexSettled == RowSettled("index")

\* handleFiles with at least one PDF, up to the await
handleFiles ==
    /\ OnInvoicesPage
    /\ InFlight("upload") < MaxInFlight
    /\ invoicesPage' =
        [invoicesPage EXCEPT !.uploading = TRUE,
                             !.requests = @ (+) SetToBag({UploadRequest})]
    /\ UNCHANGED <<line_items, totals, view, draft, exported, router, formState,
                   newInvoicePage>>

\* uploadInvoices settles: finally setUploading(false)
handleFilesSettled ==
    /\ OnInvoicesPage
    /\ BagIn(UploadRequest, invoicesPage.requests)
    /\ invoicesPage' =
        [invoicesPage EXCEPT !.uploading = FALSE,
                             !.requests = @ (-) SetToBag({UploadRequest})]
    /\ UNCHANGED <<line_items, totals, view, draft, exported, router, formState,
                   newInvoicePage>>

\* const MAX_CHARS = 2000
MAX_CHARS == 2000

\* a string as far as the page looks at it: its leading whitespace (pad) and
\* the rest, from the first to the last non-blank character (core)
Text(pad, core) == [pad |-> pad, core |-> core]

Length(t) == t.pad + t.core

\* String.prototype.trim
Trim(t) == Text(0, t.core)

\* `${prev}\n${transcript}`, the transcript starting with a non-blank character
Joined(prev, transcript) ==
    IF prev.core = 0
    THEN Text(prev.pad + 1, transcript.core)
    ELSE Text(prev.pad, prev.core + 1 + transcript.core)

\* what the user can leave in the textarea (maxLength = MAX_CHARS): nothing,
\* blanks, a short description, a description of the full length
TypedPrompts ==
    {Text(0, 0), Text(3, 0), Text(1, 20), Text(0, MAX_CHARS)}

\* what transcribeAudio resolves with: "" or a few words
Transcripts == {Text(0, 0), Text(0, 5)}

NoRequest == [absent |-> TRUE]

NewInvoicePageMounted ==
    [prompt |-> Text(0, 0), loading |-> FALSE, recording |-> FALSE, transcribing |-> FALSE,
     mediaRecorderRef |-> 0,   \* the recorder referred to; 0 for null
     permissions |-> 0,        \* getUserMedia calls awaited by startRecording
     created |-> 0,            \* recorders created so far, numbered 1, 2, ...
     recorders |-> {},         \* recorders recording
     stopping |-> {},          \* recorders stopped whose stop event is still to be handled
     transcriptions |-> 0,     \* transcribeAudio calls awaited by onstop
     generation |-> NoRequest] \* the generateInvoice call awaited by handleGenerate

OnNewInvoicePage == router.pathname = "/invoices/new" /\ newInvoicePage # Unmounted

NewInvoiceFrame ==
    UNCHANGED <<line_items, totals, view, draft, exported, router, formState, invoicesPage>>

\* the textarea's onChange
TypePrompt ==
    \E text \in TypedPrompts :
        /\ OnNewInvoicePage
        /\ newInvoicePage.prompt # text
        /\ newInvoicePage' = [newInvoicePage EXCEPT !.prompt = text]
        /\ NewInvoiceFrame

MicEnabled == ~(newInvoicePage.loading \/ newInvoicePage.transcribing)

\* the mic button while recording is false: startRecording up to its await
startRecording ==
    /\ OnNewInvoicePage
    /\ MicEnabled
    /\ ~newInvoicePage.recording
    /\ newInvoicePage.created + newInvoicePage.permissions < MaxRecorders
    /\ newInvoicePage' = [newInvoicePage EXCEPT !.permissions = @ + 1]
    /\ NewInvoiceFrame

\* getUserMedia resolves: recorder.start(), mediaRecorderRef.current = recorder,
\* setRecording(true)
startRecordingGranted ==
    /\ OnNewInvoicePage
    /\ newInvoicePage.permissions > 0
    /\ LET id == newInvoicePage.created + 1
       IN  newInvoicePage' =
            [newInvoicePage EXCEPT !.permissions = @ - 1,
                                   !.created = id,
                                   !.recorders = @ \cup {id},
                                   !.mediaRecorderRef = id,
                                   !.recording = TRUE]
    /\ NewInvoiceFrame

\* getUserMedia rejects: catch, toast
startRecordingDenied ==
    /\ OnNewInvoicePage
    /\ newInvoicePage.permissions > 0
    /\ newInvoicePage' = [newInvoicePage EXCEPT !.permissions = @ - 1]
    /\ NewInvoiceFrame

\* the mic button while recording is true: mediaRecorderRef.current?.stop(),
\* mediaRecorderRef.current = null, setRecording(false)
stopRecording ==
    /\ OnNewInvoicePage
    /\ MicEnabled
    /\ newInvoicePage.recording
    /\ LET ref == newInvoicePage.mediaRecorderRef
       IN  newInvoicePage' =
            [newInvoicePage EXCEPT !.recorders = @ \ {ref},
                                   !.stopping = IF ref = 0 THEN @ ELSE @ \cup {ref},
                                   !.mediaRecorderRef = 0,
                                   !.recording = FALSE]
    /\ NewInvoiceFrame

\* recorder.onstop up to its await: setTranscribing(true), transcribeAudio(blob)
onstop ==
    /\ OnNewInvoicePage
    /\ \E id \in newInvoicePage.stopping :
        /\ newInvoicePage' =
            [newInvoicePage EXCEPT !.stopping = @ \ {id},
                                   !.transcribing = TRUE,
                                   !.transcriptions = @ + 1]
        /\ NewInvoiceFrame

\* transcribeAudio settles: a non-empty transcript is appended to the prompt;
\* finally setTranscribing(false)
onstopSettled ==
    \E ok \in BOOLEAN, transcript \in Transcripts :
        /\ OnNewInvoicePage
        /\ newInvoicePage.transcriptions > 0
        /\ newInvoicePage' =
            [newInvoicePage EXCEPT
                !.prompt = IF ok /\ Length(transcript) > 0
                           THEN IF Length(@) > 0 THEN Joined(@, transcript) ELSE transcript
                           ELSE @,
                !.transcribing = FALSE,
                !.transcriptions = @ - 1]
        /\ NewInvoiceFrame

\* the Generate button (disabled={!prompt.trim() || loading}): handleGenerate up
\* to its await
handleGenerate ==
    /\ OnNewInvoicePage
    /\ Length(Trim(newInvoicePage.prompt)) > 0
    /\ ~newInvoicePage.loading
    /\ newInvoicePage' =
        [newInvoicePage EXCEPT
            !.loading = TRUE,
            !.generation = [prompt |-> Trim(newInvoicePage.prompt), state |-> "pending"]]
    /\ NewInvoiceFrame

\* POST /api/invoices/generate answers with an invoice or fails
GenerateResponds ==
    /\ OnNewInvoicePage
    /\ newInvoicePage.generation # NoRequest
    /\ newInvoicePage.generation.state = "pending"
    /\ \/ \E invoice \in GeneratedInvoices :
            newInvoicePage' =
                [newInvoicePage EXCEPT !.generation =
                    [prompt |-> @.prompt, state |-> "fulfilled", invoice |-> invoice]]
       \/ newInvoicePage' =
            [newInvoicePage EXCEPT !.generation =
                [prompt |-> @.prompt, state |-> "rejected"]]
    /\ NewInvoiceFrame

\* useBlocker: blocker.state, and blocker.location while blocked
Unblocked == [state |-> "unblocked"]

Blocked(to) == [state |-> "blocked", location |-> to]

EditorLocation(invoice) ==
    [pathname |-> "/invoices/editor", invoice |-> invoice, blocker |-> Unblocked]

\* faulty variant: the editor is opened whatever the outcome
handleGenerateSettled_always ==
    /\ OnNewInvoicePage
    /\ newInvoicePage.generation # NoRequest
    /\ newInvoicePage.generation.state # "pending"
    /\ router' = EditorLocation(NoInvoice)
    /\ newInvoicePage' = Unmounted
    /\ UNCHANGED <<line_items, totals, view, draft, exported, formState, invoicesPage>>

\* generateInvoice settles: navigate("/invoices/editor", { state: { invoice } }),
\* which unmounts the page, or catch; finally setLoading(false)
handleGenerateSettled ==
    /\ OnNewInvoicePage
    /\ newInvoicePage.generation # NoRequest
    /\ \/ /\ newInvoicePage.generation.state = "fulfilled"
          /\ router' = EditorLocation(newInvoicePage.generation.invoice)
          /\ newInvoicePage' = Unmounted
       \/ /\ newInvoicePage.generation.state = "rejected"
          /\ newInvoicePage' =
                [newInvoicePage EXCEPT !.loading = FALSE, !.generation = NoRequest]
          /\ UNCHANGED router
    /\ UNCHANGED <<line_items, totals, view, draft, exported, formState, invoicesPage>>

\* the New Invoice button of the invoices page: navigate("/invoices/new")
NewInvoiceClick ==
    /\ OnInvoicesPage
    /\ router' = [router EXCEPT !.pathname = "/invoices/new"]
    /\ invoicesPage' = Unmounted
    /\ newInvoicePage' = NewInvoicePageMounted
    /\ UNCHANGED <<line_items, totals, view, draft, exported, formState>>

\* the invoices page is open and the editor is not
InitPages ==
    /\ line_items = <<>>
    /\ totals = defaultValues.totals
    /\ view = NotRendered
    /\ draft = NoDraft
    /\ exported = NoExport
    /\ formState = NotFollowed
    /\ router = [pathname |-> "/invoices", invoice |-> NoInvoice, blocker |-> Unblocked]
    /\ invoicesPage = InvoicesPageMounted
    /\ newInvoicePage = Unmounted

NextPages ==
    \/ handleView
    \/ handleViewSettled
    \/ handleDelete
    \/ handleDeleteSettled
    \/ handleIndex
    \/ handleIndexSettled
    \/ handleFiles
    \/ handleFilesSettled
    \/ NewInvoiceClick
    \/ TypePrompt
    \/ startRecording
    \/ startRecordingGranted
    \/ startRecordingDenied
    \/ stopRecording
    \/ onstop
    \/ onstopSettled
    \/ handleGenerate
    \/ GenerateResponds
    \/ handleGenerateSettled

SpecPages == InitPages /\ [][NextPages]_vars

(***************************************************************************)
(* One session of the editor, from the navigation that opens it to the     *)
(* navigation that leaves it: the initial invoice, formState.isDirty, the  *)
(* Discard button, the sidebar links and the blocker.                      *)
(***************************************************************************)
\* a stored draft that JSON.parse rejects
CorruptDraft == [corrupt |-> TRUE]

\* try { raw ? JSON.parse(raw) : null } catch { return null }
parsedDraft(stored) == IF stored = CorruptDraft THEN NoInvoice ELSE stored

\* the router has reached /invoices/editor and the page has not rendered yet
InitSession ==
    \E routerInvoice \in GeneratedInvoices \cup {NoInvoice},
       stored \in StoredDrafts \cup {NoDraft, CorruptDraft} :
        /\ router = EditorLocation(routerInvoice)
        /\ draft = stored
        /\ line_items = <<>>
        /\ totals = defaultValues.totals
        /\ view = NotRendered
        /\ exported = NoExport
        /\ formState = Unmounted
        /\ invoicesPage = Unmounted
        /\ newInvoicePage = Unmounted

EditorOpen == router.pathname = "/invoices/editor" /\ view # NotRendered

\* the first render and its effects: initialInvoice, useForm, the live totals
\* and the draft effect
OpenEditor ==
    /\ router.pathname = "/invoices/editor"
    /\ view = NotRendered
    /\ LET form == formDefaults(router.invoice, parsedDraft(draft))
       IN  /\ line_items' = form.line_items
           /\ totals' = form.totals
           /\ view' = Render(form.line_items)
           /\ draft' = persistDraft(form.line_items, form.totals)
           /\ formState' = [defaultValues |-> form, isDirty |-> FALSE]
    /\ UNCHANGED <<exported, router, invoicesPage, newInvoicePage>>

\* a change of the form values: isDirty compares them with the defaultValues
SessionChanged(items) ==
    /\ EditorOpen
    /\ router.blocker = Unblocked
    /\ FormChanged(items)
    /\ formState' = [formState EXCEPT !.isDirty = items # formState.defaultValues.line_items]
    /\ UNCHANGED <<router, invoicesPage, newInvoicePage>>

SessionAddItem ==
    /\ Len(line_items) < MaxRows
    /\ SessionChanged(Append(line_items, defaultLineItem))

SessionRemoveItem ==
    \E i \in 1..Len(line_items) :
        /\ Len(line_items) # 1
        /\ SessionChanged(SubSeq(line_items, 1, i - 1)
                            \o SubSeq(line_items, i + 1, Len(line_items)))

SessionEditUnitPrice ==
    \E i \in 1..Len(line_items), x \in PriceInputs :
        /\ line_items[i].unit_price # x
        /\ SessionChanged([line_items EXCEPT ![i].unit_price = x])

\* shouldBlock: isDirty && currentLocation.pathname !== nextLocation.pathname
shouldBlock(to) == formState.isDirty /\ router.pathname # to

\* the navigation goes through: the editor is unmounted and the page at the
\* new location is mounted
Leave(to) ==
    /\ router' = [pathname |-> to, invoice |-> NoInvoice, blocker |-> Unblocked]
    /\ line_items' = <<>>
    /\ totals' = defaultValues.totals
    /\ view' = NotRendered
    /\ formState' = Unmounted
    /\ invoicesPage' = IF to = "/invoices" THEN InvoicesPageMounted ELSE Unmounted
    /\ newInvoicePage' = IF to = "/invoices/new" THEN NewInvoicePageMounted ELSE Unmounted
    /\ UNCHANGED exported

\* navigate(to) from the editor: blocked when shouldBlock says so
Navigate(to) ==
    IF shouldBlock(to)
    THEN /\ router' = [router EXCEPT !.blocker = Blocked(to)]
         /\ UNCHANGED <<line_items, totals, view, exported, formState, invoicesPage,
                        newInvoicePage>>
    ELSE Leave(to)

\* faulty variant: Discard leaves at once
Discard_unblocked ==
    /\ EditorOpen
    /\ router.blocker = Unblocked
    /\ exported = NoExport
    /\ draft' = NoDraft
    /\ Leave("/invoices")

\* the Discard button: clearDraft(); navigate("/invoices")
Discard ==
    /\ EditorOpen
    /\ router.blocker = Unblocked
    /\ exported = NoExport
    /\ draft' = NoDraft
    /\ Navigate("/invoices")

\* a link of the sidebar
NavLinkClick ==
    \E to \in {"/invoices", "/invoices/new"} :
        /\ EditorOpen
        /\ router.blocker = Unblocked
        /\ exported = NoExport
        /\ UNCHANGED draft
        /\ Navigate(to)

\* the effect on blocker: confirm(...) ? blocker.proceed() : blocker.reset()
BlockerEffect ==
    /\ EditorOpen
    /\ router.blocker # Unblocked
    /\ UNCHANGED draft
    /\ \/ Leave(router.blocker.location)
       \/ /\ router' = [router EXCEPT !.blocker = Unblocked]
          /\ UNCHANGED <<line_items, totals, view, exported, formState, invoicesPage,
                         newInvoicePage>>

NextSession ==
    \/ OpenEditor
    \/ SessionAddItem
    \/ SessionRemoveItem
    \/ SessionEditUnitPrice
    \/ Discard
    \/ NavLinkClick
    \/ BlockerEffect

\* React runs the effect after the render that saw the blocker blocked, and
\* confirm() returns synchronously
SpecSession == InitSession /\ [][NextSession]_vars /\ WF_vars(BlockerEffect)


(***************************************************************************)
(* What the claims are stated in: a line's inputs as whole numbers, the    *)
(* amounts of the formulas as exact fractions, and the valid ranges.       *)
(***************************************************************************)
Whole(a) == a.v \div Scale

InRange(a, lo, hi) == IsNum(a) /\ lo * Scale <= a.v /\ a.v <= hi * Scale

ValidSubtotalInput(li) ==
    /\ IsNum(li.quantity) /\ li.quantity.v >= 0
    /\ IsNum(li.unit_price) /\ li.unit_price.v >= 0
    /\ InRange(li.discount_pct, 0, 100)

ValidLine(li) == ValidSubtotalInput(li) /\ InRange(li.tax_pct, 0, 100)

AllValid(items) == \A i \in 1..Len(items) : ValidLine(items[i])

\* quantity * unitPrice
Gross(li) == Whole(li.quantity) * Whole(li.unit_price)

\* quantity * unitPrice * (1 - discountPct/100), in hundredths
NetHundredths(li) == Gross(li) * (100 - Whole(li.discount_pct))

\* quantity * unitPrice * discountPct/100, in hundredths
DiscountHundredths(li) == Gross(li) * Whole(li.discount_pct)

\* lineSubtotal * (taxPct/100), in ten-thousandths
TaxTenThousandths(li) == NetHundredths(li) * Whole(li.tax_pct)

SumOver(items, F(_)) ==
    LET S[n \in 0..Len(items)] == IF n = 0 THEN 0 ELSE S[n - 1] + F(items[n])
    IN  S[Len(items)]

InvalidInput == [k |-> "InvalidInput", v |-> 0]

\* C1: for every line with non-negative quantity and unit price and a discount
\* in [0,100], the subtotal the editor computes for the row is
\* quantity * unitPrice * (1 - discountPct/100), and quantity * unitPrice when
\* the discount is 0.
C1_LineSubtotal ==
    \A i \in 1..Len(line_items) :
        LET li == line_items[i]
        IN  ValidSubtotalInput(li) =>
                /\ view.subs[i] = Frac(NetHundredths(li), 100)
                /\ Whole(li.discount_pct) = 0 => view.subs[i] = Num(Gross(li))

C1_Witness ==
    \E i \in 1..Len(line_items) :
        /\ ValidSubtotalInput(line_items[i])
        /\ line_items[i].quantity = Num(2)
        /\ line_items[i].unit_price = Num(5)
        /\ line_items[i].discount_pct = Num(50)
        /\ view.subs[i] = Num(5)

\* C2: for every valid set of line items the grand total is the subtotal plus
\* the tax total of that same set.
C2_GrandTotal ==
    AllValid(line_items) =>
        /\ IsNum(view.grandTotal) /\ IsNum(view.subtotal) /\ IsNum(view.taxTotal)
        /\ view.grandTotal.v = view.subtotal.v + view.taxTotal.v

C2_Witness ==
    /\ AllValid(line_items)
    /\ Len(line_items) = 2
    /\ view.subtotal.v > 0
    /\ view.taxTotal.v > 0
    /\ view.grandTotal.v > view.subtotal.v

\* C3: the aggregate subtotal is the sum over all lines of
\* quantity * unitPrice * (1 - discountPct/100), the post-discount, pre-tax sum.
C3_Subtotal ==
    AllValid(line_items) =>
        view.subtotal = Frac(SumOver(line_items, NetHundredths), 100)

C3_Witness ==
    /\ AllValid(line_items)
    /\ Len(line_items) = 2
    /\ \A i \in 1..2 : NetHundredths(line_items[i]) > 0
    /\ \E i \in 1..2 : Whole(line_items[i].discount_pct) = 50
    /\ \E i \in 1..2 : Whole(line_items[i].tax_pct) = 10
    /\ view.subtotal = Frac(SumOver(line_items, NetHundredths), 100)

\* C4: the aggregate tax total is the sum over all lines of
\* lineSubtotal * (taxPct/100), the tax being taken on the discounted amount.
C4_TaxTotal ==
    AllValid(line_items) =>
        view.taxTotal = Frac(SumOver(line_items, TaxTenThousandths), 100 * 100)

C4_Witness ==
    /\ AllValid(line_items)
    /\ Len(line_items) = 2
    /\ \E i \in 1..2 :
        /\ Gross(line_items[i]) = 10
        /\ Whole(line_items[i].discount_pct) = 50
        /\ Whole(line_items[i].tax_pct) = 10
    /\ \A i \in 1..2 : TaxTenThousandths(line_items[i]) > 0
    /\ view.taxTotal = Frac(SumOver(line_items, TaxTenThousandths), 100 * 100)

\* C5: the aggregate discount total is the sum over all lines of
\* quantity * unitPrice * discountPct/100, so that subtotal + discountTotal is
\* the undiscounted sum of quantity * unitPrice.
C5_DiscountTotal ==
    AllValid(line_items) =>
        /\ view.discountTotal = Frac(SumOver(line_items, DiscountHundredths), 100)
        /\ IsNum(view.subtotal)
        /\ view.subtotal.v + view.discountTotal.v = SumOver(line_items, Gross) * Scale

C5_Witness ==
    /\ AllValid(line_items)
    /\ Len(line_items) = 2
    /\ \A i \in 1..2 : Gross(line_items[i]) > 0
    /\ \E i \in 1..2 : Whole(line_items[i].discount_pct) = 50
    /\ \E i \in 1..2 : Whole(line_items[i].discount_pct) = 0
    /\ view.discountTotal.v > 0

\* C6: computing a line subtotal with a negative quantity, a negative unit
\* price or a discount outside [0,100], or a line tax with a tax percentage
\* outside [0,100], fails with InvalidInput and produces no amount.
C6_RejectsInvalid ==
    /\ \A i \in 1..Len(line_items) :
        LET li == line_items[i]
        IN  (/\ IsNum(li.quantity) /\ IsNum(li.unit_price) /\ IsNum(li.discount_pct)
             /\ ~ValidSubtotalInput(li)) => view.subs[i] = InvalidInput
    /\ (\E i \in 1..Len(line_items) :
            IsNum(line_items[i].tax_pct) /\ ~InRange(line_items[i].tax_pct, 0, 100))
        => view.taxTotal = InvalidInput

\* the inputs with every value that is out of range or not a number read as 0
zeroOutOfRange(li) ==
    [li EXCEPT
        !.quantity     = IF IsNum(@) /\ @.v >= 0 THEN @ ELSE Num(0),
        !.unit_price   = IF IsNum(@) /\ @.v >= 0 THEN @ ELSE Num(0),
        !.discount_pct = IF InRange(@, 0, 100) THEN @ ELSE Num(0),
        !.tax_pct      = IF InRange(@, 0, 100) THEN @ ELSE Num(0)]

Rejected == [rejected |-> TRUE]

\* C7: an out-of-range or non-numeric input is either rejected or treated as
\* zero, by one policy for every field and every total; no such value is used
\* as it is in a computed subtotal, discountTotal, taxTotal or grandTotal.
C7_ConsistentPolicy ==
    \/ view = Rejected
    \/ view = Render([i \in 1..Len(line_items) |-> zeroOutOfRange(line_items[i])])

\* C8: after any sequence of editor changes every line's stored subtotal
\* field equals the value derived from its current quantity, unit price and
\* discount.
C8_StoredSubtotal ==
    \A i \in 1..Len(line_items) :
        LET li == line_items[i]
        IN  ValidSubtotalInput(li) => li.subtotal = Frac(NetHundredths(li), 100)

\* C9: the payload handed to the export handler carries totals equal to the
\* aggregate of the line items in that same payload.
C9_ExportedTotals ==
    (exported # NoExport /\ AllValid(exported.line_items)) =>
        /\ exported.totals.subtotal
             = Frac(SumOver(exported.line_items, NetHundredths), 100)
        /\ exported.totals.discount_total
             = Frac(SumOver(exported.line_items, DiscountHundredths), 100)
        /\ exported.totals.tax_total
             = Frac(SumOver(exported.line_items, TaxTenThousandths), 100 * 100)
        /\ exported.totals.grand_total.v
             = exported.totals.subtotal.v + exported.totals.tax_total.v

\* C10: an empty sequence of line items yields subtotal = discountTotal =
\* taxTotal = grandTotal = 0 and is not an error.
C10_EmptyTotals ==
    line_items = <<>> =>
        /\ view.subtotal = Num(0)
        /\ view.discountTotal = Num(0)
        /\ view.taxTotal = Num(0)
        /\ view.grandTotal = Num(0)

C10_Witness ==
    /\ line_items = <<>>
    /\ view.subs = <<>>
    /\ view.grandTotal = Num(0)


\* C12 as claimed: lineSubtotal(q, p, d) <= q * p, with equality if and only
\* if d = 0, also on the lines where q = 0 or p = 0.
C12_EqualityIffNoDiscount ==
    \A i \in 1..Len(line_items) :
        LET li == line_items[i]
        IN  ValidSubtotalInput(li) =>
                /\ view.subs[i].v <= Gross(li) * Scale
                /\ view.subs[i] = Num(Gross(li)) <=> Whole(li.discount_pct) = 0

\* C12 as amended: lineSubtotal(q, p, d) <= q * p, with equality if and only
\* if d = 0 or q * p = 0.
C12_AtMostGross ==
    \A i \in 1..Len(line_items) :
        LET li == line_items[i]
        IN  ValidSubtotalInput(li) =>
                /\ IsNum(view.subs[i])
                /\ view.subs[i].v <= Gross(li) * Scale
                /\ view.subs[i] = Num(Gross(li))
                     <=> (Whole(li.discount_pct) = 0 \/ Gross(li) = 0)

C12_Witness ==
    /\ Len(line_items) = 2
    /\ ValidSubtotalInput(line_items[1])
    /\ Gross(line_items[1]) = 10 /\ Whole(line_items[1].discount_pct) = 50
    /\ view.subs[1] = Num(5)
    /\ ValidSubtotalInput(line_items[2])
    /\ Gross(line_items[2]) = 0 /\ Whole(line_items[2].discount_pct) = 50
    /\ view.subs[2] = Num(0)

\* C13: a line with valid inputs has a non-negative subtotal, and the subtotal,
\* discountTotal, taxTotal and grandTotal of a valid set are non-negative.
C13_NonNegative ==
    /\ \A i \in 1..Len(line_items) :
        ValidSubtotalInput(line_items[i]) =>
            IsNum(view.subs[i]) /\ view.subs[i].v >= 0
    /\ AllValid(line_items) =>
        /\ IsNum(view.subtotal) /\ view.subtotal.v >= 0
        /\ IsNum(view.discountTotal) /\ view.discountTotal.v >= 0
        /\ IsNum(view.taxTotal) /\ view.taxTotal.v >= 0
        /\ IsNum(view.grandTotal) /\ view.grandTotal.v >= 0

C13_Witness ==
    /\ AllValid(line_items)
    /\ Len(line_items) = 2
    /\ view.subs[1].v > 0
    /\ view.subs[2].v > 0
    /\ view.discountTotal.v > 0
    /\ view.taxTotal.v > 0


Reorderings(n) == {p \in [1..n -> 1..n] : \A i, j \in 1..n : p[i] = p[j] => i = j}

Rendered == view # NotRendered

\* C11: the totals are the same for every reordering of the line items, and
\* each line's own subtotal does not depend on its position.
C11_PermutationInvariant ==
    Rendered =>
        \A p \in Reorderings(Len(line_items)) :
            LET reordered == Render([i \in 1..Len(line_items) |-> line_items[p[i]]])
            IN  /\ reordered.subtotal = view.subtotal
                /\ reordered.discountTotal = view.discountTotal
                /\ reordered.taxTotal = view.taxTotal
                /\ reordered.grandTotal = view.grandTotal
                /\ \A i \in 1..Len(line_items) : reordered.subs[i] = view.subs[p[i]]

C11_Witness ==
    /\ Rendered
    /\ Len(line_items) = 3
    /\ \A i, j \in 1..3 : line_items[i] = line_items[j] => i = j
    /\ AllValid(line_items)
    /\ line_items[1].unit_price = Num(800)
    /\ view.subtotal.v > 0
    /\ view.taxTotal.v > 0

\* C14: on lines of the simple schema, which carry neither discount_pct nor
\* tax_pct, the missing percentages count as zero: each line's subtotal is
\* quantity * unit_price and the grand total is the subtotal (199.98 for one
\* line of quantity 2 at 99.99), also when the invoice is loaded into the editor.
C14_SimpleSchema ==
    Rendered =>
        /\ \A i \in 1..Len(line_items) :
            LET li == line_items[i]
            IN  (li.discount_pct = Undefined /\ li.tax_pct = Undefined) =>
                    view.subs[i] = Mul(li.quantity, li.unit_price)
        /\ (Len(line_items) = 1 /\ line_items[1].quantity = Num(2)
            /\ line_items[1].unit_price = Frac(9999, 100)
            /\ line_items[1].discount_pct = Undefined
            /\ line_items[1].tax_pct = Undefined) =>
                /\ view.subtotal = Frac(19998, 100)
                /\ view.grandTotal = Frac(19998, 100)

\* C15: the lines (10 x 150), (1 x 800 at 50% discount) and (2 x 800), all
\* without tax, give subtotal = 1500 + 400 + 1600 = 3500 and grandTotal = 3500.
C15_Scenario ==
    (/\ Rendered
     /\ Len(line_items) = 3
     /\ Whole(line_items[1].quantity) = 10 /\ Whole(line_items[1].unit_price) = 150
     /\ line_items[1].discount_pct = Num(0) /\ line_items[1].tax_pct = Num(0)
     /\ Whole(line_items[2].quantity) = 1 /\ Whole(line_items[2].unit_price) = 800
     /\ line_items[2].discount_pct = Num(50) /\ line_items[2].tax_pct = Num(0)
     /\ Whole(line_items[3].quantity) = 2 /\ Whole(line_items[3].unit_price) = 800
     /\ line_items[3].discount_pct = Num(0) /\ line_items[3].tax_pct = Num(0))
    => /\ view.subs = <<Num(1500), Num(400), Num(1600)>>
       /\ view.subtotal = Num(3500)
       /\ view.grandTotal = Num(3500)

C15_Witness ==
    /\ Rendered
    /\ Len(line_items) = 3
    /\ Whole(line_items[1].quantity) = 10 /\ Whole(line_items[1].unit_price) = 150
    /\ Whole(line_items[2].quantity) = 1 /\ line_items[2].discount_pct = Num(50)
    /\ Whole(line_items[3].quantity) = 2 /\ line_items[3].discount_pct = Num(0)
    /\ view.grandTotal = Num(3500)

\* the text of amount a rounded once: the nearest cent, a half going away from zero
RoundedOnce(text, a) ==
    /\ text.k = "text"
    /\ LET off == a.v - 100 * text.cents
       IN  /\ -50 <= off /\ off <= 50
           /\ off = 50 => a.v < 0
           /\ off = -50 => a.v > 0

\* C17: the totals are sums of unrounded per-line amounts, and rounding to two
\* decimals is applied once to each displayed number, at display time; no
\* rounded value goes into a sum.
C17_RoundedOnceAtDisplay ==
    (Rendered /\ AllValid(line_items)) =>
        /\ view.subtotal = Frac(SumOver(line_items, NetHundredths), 100)
        /\ view.discountTotal = Frac(SumOver(line_items, DiscountHundredths), 100)
        /\ view.taxTotal = Frac(SumOver(line_items, TaxTenThousandths), 100 * 100)
        /\ view.grandTotal.v = view.subtotal.v + view.taxTotal.v
        /\ RoundedOnce(view.shown.subtotal, view.subtotal)
        /\ RoundedOnce(view.shown.discountTotal, view.discountTotal)
        /\ RoundedOnce(view.shown.taxTotal, view.taxTotal)
        /\ RoundedOnce(view.shown.grandTotal, view.grandTotal)
        /\ \A i \in 1..Len(line_items) :
            /\ view.subs[i] = Frac(NetHundredths(line_items[i]), 100)
            /\ RoundedOnce(view.shown.subs[i], view.subs[i])

\* two lines with a tax of half a cent each: one cent of tax, not two
C17_Witness ==
    /\ Rendered
    /\ Len(line_items) = 2
    /\ \A i \in 1..2 : TaxTenThousandths(line_items[i]) = 50
    /\ view.taxTotal = Frac(1, 100)
    /\ view.shown.taxTotal.cents = 1
    /\ view.shown.grandTotal.cents = 101


\* C18: a row added by Add Item has quantity 1, unit price 0, discount 0 and
\* tax 0 and comes after the existing rows; adding it leaves every existing
\* row and the invoice totals unchanged.
C18_AddItemFrame ==
    [][Len(line_items') = Len(line_items) + 1 =>
        /\ SubSeq(line_items', 1, Len(line_items)) = line_items
        /\ Last(line_items').quantity = Num(1)
        /\ Last(line_items').unit_price = Num(0)
        /\ Last(line_items').discount_pct = Num(0)
        /\ Last(line_items').tax_pct = Num(0)
        /\ \A i \in 1..Len(line_items) : view'.subs[i] = view.subs[i]
        /\ view'.subtotal = view.subtotal
        /\ view'.discountTotal = view.discountTotal
        /\ view'.taxTotal = view.taxTotal
        /\ view'.grandTotal = view.grandTotal
        /\ totals' = totals]_vars

C18_Witness ==
    /\ Len(line_items) = 2
    /\ line_items[1].unit_price = Num(5)
    /\ line_items[1].quantity = Num(2)
    /\ line_items[2] = defaultLineItem
    /\ view.subtotal = view.subs[1]
    /\ view.subs[2] = Num(0)

StoredAs(stored, a) == IF IsNum(a) THEN stored = a ELSE stored = Null

Completed ==
    /\ Started
    /\ view.pc = "done"
    /\ view.steps = 3 * Len(line_items) + 5
    /\ view.subtotal = subtotal(line_items)
    /\ view.discountTotal = discountTotal(line_items)
    /\ view.taxTotal = taxTotal(line_items)
    /\ view.grandTotal = grandTotal(subtotal(line_items), taxTotal(line_items))

\* C20: a totals computation that is started always completes with its result
\* after a number of steps linear in the number of line items (3n + 5 for n
\* items), and until it has completed its next step can always be taken: it
\* never waits for anything.
C20_CompletesInLinearSteps ==
    /\ [](Started =>
            /\ view.steps <= 3 * Len(line_items) + 5
            /\ view.pc # "done" => ENABLED <<NextSteps>>_vars)
    /\ (Started /\ view.pc # "done") ~> Completed

C20_Witness ==
    /\ Len(line_items) = 3
    /\ Started
    /\ view.pc = "done"
    /\ view.steps = 14
    /\ view.subtotal = Num(3500)
    /\ view.grandTotal = Num(3500)


\* the rendered subs and totals are those of the given rows
ShownFor(shown, items) ==
    /\ Len(shown.subs) = Len(items)
    /\ \A i \in 1..Len(items) :
        ValidSubtotalInput(items[i]) => shown.subs[i] = Frac(NetHundredths(items[i]), 100)
    /\ AllValid(items) =>
        /\ shown.subtotal = Frac(SumOver(items, NetHundredths), 100)
        /\ shown.discountTotal = Frac(SumOver(items, DiscountHundredths), 100)
        /\ shown.taxTotal = Frac(SumOver(items, TaxTenThousandths), 100 * 100)
        /\ shown.grandTotal = Add(shown.subtotal, shown.taxTotal)

\* C21: with a second editor instance writing the same stored draft, every
\* step leaves the displayed subs and totals those of the line items on
\* screen, and the line items change only by a change made in this editor
\* (which then stores exactly these line items as the draft).
C21_SoleWriter ==
    [][/\ ShownFor(view', line_items')
       /\ line_items' # line_items => draft' = persistDraft(line_items', totals')]_vars

C21_Witness ==
    /\ Len(line_items) = 2
    /\ AllValid(line_items)
    /\ line_items[1].unit_price = Num(5)
    /\ line_items[2].tax_pct = Num(10)
    /\ draft # NoDraft
    /\ draft # persistDraft(line_items, totals)
    /\ draft.line_items[1].unit_price = Null
    /\ ShownFor(view, line_items)
    /\ view.subtotal = Num(10)


\* C22: while a delete (view, index) request for a listed record is in flight,
\* that record's delete (view, index) button is disabled, whatever requests of
\* the same kind for other records were started or settled meanwhile.
C22_DisabledWhileInFlight ==
    OnInvoicesPage =>
        \A req \in BagToSet(invoicesPage.requests) :
            (req.kind \in DOMAIN BusyFlag /\ req.id \in invoicesPage.records) =>
                invoicesPage[BusyFlag[req.kind]] = req.id

\* C23: at most one recorder is recording at any time, and a recorder that is
\* recording is the one mediaRecorderRef refers to, so that a stop click stops it.
C23_OneRecorderReferred ==
    OnNewInvoicePage =>
        /\ Cardinality(newInvoicePage.recorders) <= 1
        /\ \A id \in newInvoicePage.recorders : newInvoicePage.mediaRecorderRef = id

\* C24: the prompt of the new-invoice page, and the prompt sent to generation,
\* are at most MAX_CHARS characters long.
C24_PromptWithinMaxChars ==
    OnNewInvoicePage =>
        /\ Length(newInvoicePage.prompt) <= MAX_CHARS
        /\ newInvoicePage.generation # NoRequest =>
                Length(newInvoicePage.generation.prompt) <= MAX_CHARS

\* the flags of the mounted page that no request in flight accounts for are reset
FlagsClearWhenSettled ==
    /\ invoicesPage # Unmounted =>
        /\ \A kind \in DOMAIN BusyFlag :
                InFlight(kind) = 0 => invoicesPage[BusyFlag[kind]] = NoId
        /\ InFlight("upload") = 0 => ~invoicesPage.uploading
    /\ newInvoicePage # Unmounted =>
        /\ newInvoicePage.transcriptions = 0 => ~newInvoicePage.transcribing
        /\ newInvoicePage.generation = NoRequest => ~newInvoicePage.loading

\* C27: the step in which a request settles resets the busy flag its handler
\* set, whether the request was fulfilled or rejected, and whenever no request
\* of a kind is in flight the flag of that kind is reset.
C27_FlagsReset ==
    /\ []FlagsClearWhenSettled
    /\ [][/\ (invoicesPage # Unmounted /\ invoicesPage' # Unmounted) =>
                /\ \A kind \in DOMAIN BusyFlag :
                        InFlight(kind)' < InFlight(kind) =>
                            invoicesPage'[BusyFlag[kind]] = NoId
                /\ InFlight("upload")' < InFlight("upload") => ~invoicesPage'.uploading
          /\ (newInvoicePage # Unmounted /\ newInvoicePage' # Unmounted) =>
                /\ newInvoicePage'.transcriptions < newInvoicePage.transcriptions =>
                        ~newInvoicePage'.transcribing
                /\ (newInvoicePage.generation # NoRequest
                        /\ newInvoicePage'.generation = NoRequest) =>
                        ~newInvoicePage'.loading]_vars

C27_Witness ==
    /\ invoicesPage # Unmounted
    /\ invoicesPage.records = {"r2"}
    /\ invoicesPage.requests = EmptyBag
    /\ invoicesPage.deletingId = NoId
    /\ invoicesPage.viewingId = NoId
    /\ invoicesPage.indexingId = NoId
    /\ ~invoicesPage.uploading

\* C28: a generation request is sent only for a prompt that is not blank and
\* carries the trimmed prompt; the page navigates to the editor only in the
\* step that handles a fulfilled request, carrying the returned invoice; the
\* step that handles a rejected request leaves location and prompt unchanged
\* and resets loading.
C28_GenerateOutcome ==
    [][OnNewInvoicePage =>
        /\ (newInvoicePage' # Unmounted /\ newInvoicePage.generation = NoRequest
                /\ newInvoicePage'.generation # NoRequest) =>
                /\ Length(Trim(newInvoicePage.prompt)) > 0
                /\ newInvoicePage'.generation.prompt = Trim(newInvoicePage.prompt)
        /\ router' # router =>
                /\ newInvoicePage.generation # NoRequest
                /\ newInvoicePage.generation.state = "fulfilled"
                /\ router'.pathname = "/invoices/editor"
                /\ router'.invoice = newInvoicePage.generation.invoice
        /\ (newInvoicePage.generation # NoRequest
                /\ newInvoicePage.generation.state = "rejected"
                /\ newInvoicePage' # Unmounted
                /\ newInvoicePage'.generation = NoRequest) =>
                /\ router' = router
                /\ newInvoicePage'.prompt = newInvoicePage.prompt
                /\ ~newInvoicePage'.loading
        /\ (newInvoicePage' # Unmounted /\ newInvoicePage.generation # NoRequest
                /\ newInvoicePage'.generation = NoRequest) =>
                newInvoicePage.generation.state = "rejected"]_vars

C28_Witness ==
    /\ router.pathname = "/invoices/editor"
    /\ router.invoice # NoInvoice
    /\ Len(router.invoice.line_items) = 1
    /\ newInvoicePage = Unmounted
    /\ invoicesPage = Unmounted


\* C25: while the editor is open and no navigation is waiting for an answer,
\* the draft stored under invoice_draft holds the editor's current form values,
\* also after Discard on a modified form whose leave confirmation was declined.
C25_DraftHoldsFormValues ==
    (EditorOpen /\ router.blocker = Unblocked) =>
        draft = persistDraft(line_items, totals)

\* C26: an open editor has at least one line-item row, whatever invoice it
\* was opened with and whatever rows were added and removed.
C26_AtLeastOneRow ==
    EditorOpen => Len(line_items) >= 1

\* C29: the step that opens the editor takes the router-state invoice when
\* there is one, else the stored draft when it parses, else the built-in
\* defaults; and with a router-state invoice it leaves a stored draft as it is.
C29_InitialInvoice ==
    [][(view = NotRendered /\ view' # NotRendered) =>
        /\ line_items' =
            IF router.invoice # NoInvoice THEN router.invoice.line_items
            ELSE IF draft \notin {NoDraft, CorruptDraft} THEN draft.line_items
            ELSE <<defaultLineItem>>
        /\ (router.invoice # NoInvoice /\ draft \notin {NoDraft, CorruptDraft}) =>
                draft' = draft]_vars

\* C30: the editor is left for another pathname while the form is dirty only
\* by the step that answers a blocked navigation; a step that answers it and
\* stays leaves location and form values unchanged; and a blocked navigation
\* is always answered.
C30_BlockedUntilAnswered ==
    /\ [][/\ (EditorOpen /\ formState.isDirty /\ router'.pathname # router.pathname) =>
                /\ router.blocker # Unblocked
                /\ router'.pathname = router.blocker.location
          /\ (EditorOpen /\ router.blocker # Unblocked
                /\ router'.pathname = router.pathname) =>
                /\ router'.blocker = Unblocked
                /\ router'.invoice = router.invoice
                /\ line_items' = line_items
                /\ totals' = totals
                /\ view' = view]_vars
    /\ (EditorOpen /\ router.blocker # Unblocked) ~> (router.blocker = Unblocked)

C30_Witness ==
    /\ EditorOpen
    /\ formState.isDirty
    /\ router.blocker = Unblocked
    /\ draft = NoDraft
    /\ Len(line_items) = 2

=============================================================================
